---- MODULE Spec2Model ----
(***************************************************************************)
(* Model of tcp_client_v2 (src/tcpclient2.cc): a non-blocking TCP client   *)
(* that pumps bytes between a socket and a shared buffer handler (two      *)
(* rings), driven by a select()-style event loop.                          *)
(*                                                                         *)
(* The client's fields are variables of the same name.  The operating      *)
(* system is the set open_fds of descriptors this process holds open.  The *)
(* buffer handler (buffer_handler.h, not part of the sources at hand) is   *)
(* the pair of rings rbuf (ingress) and wbuf (egress) plus an error        *)
(* channel; its operations are modelled from the specification.            *)
(*                                                                         *)
(* pollable_poll holds tcp_mutex from entry to return; its read loop is    *)
(* modelled one iteration per step, with pc the position inside the call.  *)
(* No other operation of the client is enabled while pc # "idle".          *)
(***************************************************************************)
EXTENDS Integers, Sequences, FiniteSets, TLC

\* ---------------------------------------------------------------- bounds
NumFds == 2          \* descriptors the process may hold open at once
RCap == 2            \* capacity of the ingress ring, in bytes
WCap == 2            \* capacity of the egress ring, in bytes
MaxRx == 3           \* bytes the peers deliver in total
MaxEnq == 2          \* bytes the producer enqueues in total

\* ------------------------------------------------------- program constants
FirstFd == 3         \* lowest descriptor socket() can return (0,1,2 are stdio)
StrayFd == 63        \* bit touched by FD_SET(-1, set) on a 64-bit fd_mask
OtherFd == 0         \* a descriptor another pollable has put in the fd sets
Retryable == -1      \* recv/send returned -1 with errno EINTR, EAGAIN or EWOULDBLOCK
HardError == -2      \* recv/send returned -1 with any other errno

Fds == FirstFd..(FirstFd + NumFds - 1)
\* the mutexes: the one handler->get_mutex() returns, one a caller passes to
\* set_mutex(), and the one set_mutex() makes itself
HandlerMutex == "handler"
ParentMutex == "parent"
OwnMutex == "own"
\* the arguments set_mutex() is called with; "null" is the null pointer
MutexArgs == {"null", HandlerMutex, ParentMutex}
\* the (host, port) pairs connect() is called with
Endpoints == {<<"a", 1>>, <<"b", 2>>}
\* in_max_fd below and above every descriptor of the client
MaxFdInputs == {OtherFd, FirstFd + NumFds}

VARIABLES
    pending_connect,   \* tcp_client_v2::pending_connect
    connected,         \* tcp_client_v2::connected
    cli_fd,            \* tcp_client_v2::cli_fd
    tcp_mutex,         \* tcp_client_v2::tcp_mutex: which mutex it points to
    host,              \* tcp_client_v2::host
    port,              \* tcp_client_v2::port
    open_fds,          \* descriptors opened by socket() and not yet closed
    rbuf,              \* ingress ring of the handler: bytes committed, not yet drained
    wbuf,              \* egress ring of the handler: bytes enqueued, not yet consumed
    rx_count,          \* bytes delivered so far by positive recv() returns
    enq_count,         \* bytes enqueued so far on the egress ring
    tot_commit,        \* sum of the lengths passed to commit_read_buffer_data so far
    sent,              \* bytes accepted so far by send(), in order
    rx_base,           \* rx_count when socket() returned the current descriptor
    rx_log,            \* bytes of the current socket the ingress ring accepted, in order
    pc,                \* position inside pollable_poll: "idle", "read", "write"
    in_rset,           \* FD_ISSET(cli_fd, &in_rset) of the poll call in progress
    in_wset,           \* FD_ISSET(cli_fd, &in_wset) of the poll call in progress
    call,              \* the call in progress or last returned, and what it did
    pre                \* the client, rings and descriptors when that call began

vars == <<pending_connect, connected, cli_fd, tcp_mutex, host, port, open_fds,
          rbuf, wbuf,
          rx_count, enq_count, tot_commit, sent, rx_base, rx_log,
          pc, in_rset, in_wset, call, pre>>

client == <<pending_connect, connected, cli_fd, host, port>>
rings == <<rbuf, wbuf>>
traffic == <<rx_count, enq_count, tot_commit, sent, rx_base, rx_log>>
polling == <<pc, in_rset, in_wset>>

\* ------------------------------------------------------------- helpers
Min(S) == CHOOSE x \in S : \A y \in S : x <= y

\* bytes lo+1 .. lo+n of a stream whose i-th byte is i
Bytes(lo, n) == [i \in 1..n |-> lo + i]

Drop(s, n) == SubSeq(s, n + 1, Len(s))

Snapshot ==
    [pending_connect |-> pending_connect, connected |-> connected,
     cli_fd |-> cli_fd, host |-> host, port |-> port,
     open_fds |-> open_fds, rbuf |-> rbuf, wbuf |-> wbuf,
     rx_count |-> rx_count, tot_commit |-> tot_commit]

\* a client that locks the handler's mutex whatever tcp_mutex points to
LockTakenFromHandler == HandlerMutex

\* lines 47, 56, 125, 154, 302: local_locker l(tcp_mutex)
LockTaken == tcp_mutex

\* what a call was given and did: whether cli_fd was in in_rset and in_wset
\* and what getsockopt said (poll), the return value, the errors pushed to the
\* handler, what each recv returned, the sends and closes made, the last
\* reservation and commit, the send result, the fd sets of a merge, and the
\* kind of failure the call met, the zero-copy calls of its last loop
\* iteration or send, the mutex the call held and the argument of a set_mutex
NewCall(op) ==
    [op |-> op, lock |-> LockTaken, arg |-> "none",
     r |-> FALSE, w |-> FALSE, so |-> "none",
     ret |-> 0, done |-> FALSE, errs |-> <<>>, failure |-> "none",
     handles |-> <<>>,
     recvs |-> <<>>, nsend |-> 0, closes |-> 0,
     avail |-> 0, reserved |-> 0, commit |-> 0, sendret |-> 0,
     max_in |-> 0, rs_out |-> {}, ws_out |-> {}]

Returned(c, r) == [c EXCEPT !.ret = r, !.done = TRUE]

\* ------------------------------------------------------------ handler
\* buffer_handler_generic::get_read_buffer_available
get_read_buffer_available == RCap - Len(rbuf)

\* buffer_handler_generic::get_write_buffer_used
get_write_buffer_used == Len(wbuf)

Init ==
    /\ pending_connect = FALSE
    /\ connected = FALSE
    /\ cli_fd = -1
    /\ tcp_mutex = HandlerMutex
    /\ host = ""
    /\ port = 0
    /\ open_fds = {}
    /\ rbuf = <<>>
    /\ wbuf = <<>>
    /\ rx_count = 0
    /\ enq_count = 0
    /\ tot_commit = 0
    /\ sent = <<>>
    /\ rx_base = 0
    /\ rx_log = <<>>
    /\ pc = "idle"
    /\ in_rset = FALSE
    /\ in_wset = FALSE
    /\ call = Returned(NewCall("none"), 0)
    /\ pre = [pending_connect |-> FALSE, connected |-> FALSE, cli_fd |-> -1,
              host |-> "", port |-> port, open_fds |-> {},
              rbuf |-> <<>>, wbuf |-> <<>>, rx_count |-> 0, tot_commit |-> 0]

\* ---------------------------------------------------------- set_mutex()
\* lines 49-52: the mutex tcp_mutex points to afterwards
SetMutexTarget(in_parent) ==
    IF in_parent # "null" THEN in_parent ELSE OwnMutex

\* lines 46-53
SetMutex(in_parent) ==
    /\ pc = "idle"
    /\ in_parent \in MutexArgs
    /\ tcp_mutex' = SetMutexTarget(in_parent)
    /\ pre' = Snapshot
    /\ call' = Returned([NewCall("set_mutex") EXCEPT !.arg = in_parent], 0)
    /\ UNCHANGED <<client, open_fds, rings, traffic, polling>>

\* ------------------------------------------------------------ connect()
\* line 60: the only state connect() refuses to start from
ConnectRefused == connected

\* line 85: socket() returns the lowest free descriptor, or -1
SocketOutcomes ==
    IF Fds \ open_fds = {} THEN {-1} ELSE {-1, Min(Fds \ open_fds)}

\* lines 96-98: ::connect() completes, is in progress, or fails
ConnectOutcomes == {"ok", "inprogress", "error"}

\* line 99
ConnectInProgressFlags ==
    [pending_connect |-> TRUE, connected |-> connected]

\* lines 117-118
ConnectSyncFlags ==
    [pending_connect |-> FALSE, connected |-> TRUE]

\* lines 60-64: already connected
ConnectAlready ==
    /\ pc = "idle"
    /\ UNCHANGED tcp_mutex
    /\ ConnectRefused
    /\ pre' = Snapshot
    /\ call' = Returned([NewCall("connect") EXCEPT
                   !.failure = "AlreadyConnected"], -1)
    /\ UNCHANGED <<client, open_fds, rings, traffic, polling>>

\* a connect() that stores host and port before it resolves the name
ConnectUnresolvedStoresEndpoint ==
    /\ pc = "idle"
    /\ UNCHANGED tcp_mutex
    /\ ~ConnectRefused
    /\ pre' = Snapshot
    /\ \E e \in Endpoints : host' = e[1] /\ port' = e[2]
    /\ call' = Returned([NewCall("connect") EXCEPT
                   !.failure = "ResolutionFailure"], -1)
    /\ UNCHANGED <<pending_connect, connected, cli_fd, open_fds, rings,
                   traffic, polling>>

\* lines 66-69: gethostbyname() fails
ConnectUnresolved ==
    /\ pc = "idle"
    /\ UNCHANGED tcp_mutex
    /\ ~ConnectRefused
    /\ pre' = Snapshot
    /\ call' = Returned([NewCall("connect") EXCEPT
                   !.failure = "ResolutionFailure"], -1)
    /\ UNCHANGED <<client, open_fds, rings, traffic, polling>>

\* lines 71-89: socket() fails; cli_fd holds its -1
ConnectNoSocket(in_host, in_port) ==
    /\ pc = "idle"
    /\ UNCHANGED tcp_mutex
    /\ ~ConnectRefused
    /\ pre' = Snapshot
    /\ host' = in_host
    /\ port' = in_port
    /\ cli_fd' = -1
    /\ call' = Returned([NewCall("connect") EXCEPT
                   !.failure = "SocketCreateFailure"], -1)
    /\ UNCHANGED <<pending_connect, connected, open_fds, rings, traffic, polling>>

\* lines 71-121: socket() returns s and ::connect() ends as c
ConnectSocket(in_host, in_port, s, c) ==
    /\ pc = "idle"
    /\ UNCHANGED tcp_mutex
    /\ ~ConnectRefused
    /\ s \in SocketOutcomes
    /\ s >= 0
    /\ pre' = Snapshot
    /\ host' = in_host
    /\ port' = in_port
    /\ rx_base' = rx_count
    /\ rx_log' = <<>>
    /\ UNCHANGED <<rings, rx_count, enq_count, tot_commit, sent, polling>>
    /\ CASE c = "inprogress" ->
            /\ cli_fd' = s
            /\ open_fds' = open_fds \cup {s}
            /\ pending_connect' = ConnectInProgressFlags.pending_connect
            /\ connected' = ConnectInProgressFlags.connected
            /\ call' = Returned(NewCall("connect"), 0)
         [] c = "ok" ->
            /\ cli_fd' = s
            /\ open_fds' = open_fds \cup {s}
            /\ pending_connect' = ConnectSyncFlags.pending_connect
            /\ connected' = ConnectSyncFlags.connected
            /\ call' = Returned(NewCall("connect"), 0)
         [] c = "error" ->
            \* lines 101-114: close the new socket, report an empty
            \* message (msg is never written to)
            /\ cli_fd' = -1
            /\ open_fds' = open_fds
            /\ pending_connect' = FALSE
            /\ connected' = FALSE
            /\ call' = Returned([NewCall("connect") EXCEPT
                           !.failure = "ConnectFailure",
                           !.errs = <<"">>, !.closes = 1], -1)

\* --------------------------------------------------------- disconnect()
\* a disconnect that calls close(cli_fd) whatever the state and descriptor
DisconnectClosesUnguarded == TRUE

\* lines 304-308: close(cli_fd) runs only from Connecting/Connected with cli_fd >= 0
DisconnectCloses == (pending_connect \/ connected) /\ cli_fd >= 0

DisconnectFds == IF DisconnectCloses THEN open_fds \ {cli_fd} ELSE open_fds

\* lines 310-312
DisconnectState ==
    [cli_fd |-> -1, pending_connect |-> FALSE, connected |-> FALSE]

\* the assignments of disconnect(), for its callers inside pollable_poll
DoDisconnect ==
    /\ open_fds' = DisconnectFds
    /\ cli_fd' = DisconnectState.cli_fd
    /\ pending_connect' = DisconnectState.pending_connect
    /\ connected' = DisconnectState.connected
    /\ UNCHANGED <<host, port>>

\* c, returned with status 0 after a disconnect() made inside the call
AfterDisconnect(c) ==
    Returned([c EXCEPT !.closes = IF DisconnectCloses THEN 1 ELSE 0], 0)

Disconnect ==
    /\ pc = "idle"
    /\ UNCHANGED tcp_mutex
    /\ pre' = Snapshot
    /\ DoDisconnect
    /\ call' = AfterDisconnect(NewCall("disconnect"))
    /\ UNCHANGED <<rings, traffic, polling>>

\* --------------------------------------------------- pollable_merge_set()
\* FD_SET(fd, set): the sets it can leave behind.  FD_SET of a negative
\* descriptor is undefined: it shifts by a negative count, which leaves the
\* set alone or sets a stray bit of its first word.
FdSet(fd, set) ==
    IF fd >= 0 THEN {set \cup {fd}} ELSE {set, set \cup {StrayFd}}

\* lines 129-130 and 136-142: is FD_SET(cli_fd, out_wset) executed
MergeSetsWrite ==
    pending_connect \/ (connected /\ get_write_buffer_used > 0)

\* a merge that asks for reads as soon as a connect is under way
MergeSetsReadWhenActive == pending_connect \/ connected

\* lines 129-137 and 145: is FD_SET(cli_fd, out_rset) executed
MergeSetsRead == ~pending_connect /\ connected

\* a merge that returns its own descriptor without comparing
MergeReturnOwnFd(in_max_fd) ==
    IF pending_connect \/ connected THEN cli_fd ELSE in_max_fd

\* lines 131-133, 137, 147-150: the value returned
MergeReturn(in_max_fd) ==
    IF pending_connect \/ connected
    THEN (IF in_max_fd < cli_fd THEN cli_fd ELSE in_max_fd)
    ELSE in_max_fd

\* out_rset and out_wset arrive holding the descriptor of another pollable
MergeSet(in_max_fd) ==
    /\ pc = "idle"
    /\ UNCHANGED tcp_mutex
    /\ pre' = Snapshot
    /\ \E ws \in (IF MergeSetsWrite THEN FdSet(cli_fd, {OtherFd}) ELSE {{OtherFd}}),
          rs \in (IF MergeSetsRead THEN FdSet(cli_fd, {OtherFd}) ELSE {{OtherFd}}) :
          call' = Returned([NewCall("merge") EXCEPT
                      !.max_in = in_max_fd, !.rs_out = rs, !.ws_out = ws],
                      MergeReturn(in_max_fd))
    /\ UNCHANGED <<client, open_fds, rings, traffic, polling>>

\* ------------------------------------------------------- pollable_poll()
\* line 171: getsockopt(SO_ERROR) yields no error, an error, or fails itself;
\* on a descriptor that is not open it fails (EBADF)
GetsockoptOutcomes ==
    IF cli_fd \in open_fds THEN {"ok", "error", "queryfail"} ELSE {"queryfail"}

\* a completion that forgets to leave Connecting
PollConnectedKeepsPending == [pending_connect |-> TRUE, connected |-> TRUE]

\* lines 187-188
PollConnectedFlags == [pending_connect |-> FALSE, connected |-> TRUE]

\* a failure path that resets the state and forgets close()
PollConnectFailedNoClose ==
    [open_fds |-> open_fds,
     cli_fd |-> -1, pending_connect |-> FALSE, connected |-> FALSE]

\* lines 179-183
PollConnectFailed ==
    [open_fds |-> IF cli_fd >= 0 THEN open_fds \ {cli_fd} ELSE open_fds,
     cli_fd |-> -1, pending_connect |-> FALSE, connected |-> FALSE]

\* lines 162-164, 194-195: connecting, cli_fd not in in_wset
PollConnectWait(r) ==
    /\ pc = "idle"
    /\ UNCHANGED tcp_mutex
    /\ pending_connect
    /\ pre' = Snapshot
    /\ call' = Returned([NewCall("poll") EXCEPT !.r = r], 0)
    /\ UNCHANGED <<client, open_fds, rings, traffic, polling>>

\* lines 162-191: connecting, cli_fd in in_wset, getsockopt yields so
PollConnectReady(r, so) ==
    /\ pc = "idle"
    /\ UNCHANGED tcp_mutex
    /\ pending_connect
    /\ so \in GetsockoptOutcomes
    /\ pre' = Snapshot
    /\ UNCHANGED <<host, port, rings, traffic, polling>>
    /\ IF so = "ok"
       THEN /\ pending_connect' = PollConnectedFlags.pending_connect
            /\ connected' = PollConnectedFlags.connected
            /\ call' = Returned([NewCall("poll") EXCEPT
                           !.r = r, !.w = TRUE, !.so = so], 0)
            /\ UNCHANGED <<cli_fd, open_fds>>
       ELSE /\ open_fds' = PollConnectFailed.open_fds
            /\ cli_fd' = PollConnectFailed.cli_fd
            /\ pending_connect' = PollConnectFailed.pending_connect
            /\ connected' = PollConnectFailed.connected
            /\ call' = Returned([NewCall("poll") EXCEPT
                           !.r = r, !.w = TRUE, !.so = so,
                           !.failure = "ConnectFailure",
                           !.errs = <<"ConnectFailure">>,
                           !.closes = IF cli_fd >= 0 THEN 1 ELSE 0], 0)

\* lines 198-199: neither connecting nor connected
PollInactive ==
    /\ pc = "idle"
    /\ UNCHANGED tcp_mutex
    /\ ~pending_connect
    /\ ~connected
    /\ pre' = Snapshot
    /\ call' = Returned(NewCall("poll"), 0)
    /\ UNCHANGED <<client, open_fds, rings, traffic, polling>>

\* a handler callback into the consumer (trigger_read_callback, or the
\* notification that follows a commit): the consumer may drain k bytes
Drained(buf, k) == Drop(buf, k)

\* lines 201-204: connected; r and w tell whether cli_fd is in in_rset and
\* in_wset.  With a full ingress ring the consumer is called first.
PollConnected(r, w, k) ==
    /\ pc = "idle"
    /\ UNCHANGED tcp_mutex
    /\ ~pending_connect
    /\ connected
    /\ pre' = Snapshot
    /\ call' = [NewCall("poll") EXCEPT !.r = r, !.w = w]
    /\ in_rset' = r
    /\ in_wset' = w
    /\ pc' = IF r THEN "read" ELSE "write"
    /\ k \in 0..Len(rbuf)
    /\ (k > 0 => r /\ get_read_buffer_available = 0)
    /\ rbuf' = Drained(rbuf, k)
    /\ UNCHANGED <<client, open_fds, wbuf, traffic>>

\* line 209: the loop condition
ReadLoopRuns == connected /\ get_read_buffer_available > 0

\* line 209 false: on to the write phase
PollReadDone ==
    /\ pc = "read"
    /\ UNCHANGED tcp_mutex
    /\ ~ReadLoopRuns
    /\ pc' = "write"
    /\ UNCHANGED <<client, open_fds, rings, traffic, in_rset, in_wset, call, pre>>

\* zero_copy_reserve_read_buffer_data(buf, sz): a region of at most sz bytes
ReserveOutcomes(sz) == 0..sz

\* line 220: recv(cli_fd, buf, len) returns n > 0 bytes, 0 (peer closed), or
\* fails with a retryable or another errno
RecvOutcomes(len) ==
    {n \in 1..len : rx_count + n <= MaxRx} \cup {0, Retryable, HardError}

\* a read path that commits nothing of what it received
CommitNothing(len, ret) == 0

\* a commit of the whole reservation instead of the bytes received
CommitWholeRegion(len, ret) == IF ret > 0 THEN len ELSE 0

\* the length passed to commit_read_buffer_data after recv returned ret into
\* a region of len bytes (lines 225, 234, 244, 251)
CommitLen(len, ret) == IF ret > 0 THEN ret ELSE 0

\* a read path that takes a zero-byte receive for an empty read
RecvDisconnectsOnErrorOnly(ret) == ret = HardError

\* lines 222-248: does this receive result end in disconnect()
RecvDisconnects(ret) == ret = HardError \/ ret = 0

\* lines 222, 229, 240, 253: the failure a receive result and the ring's
\* answer to the commit amount to
RecvFailure(ret, accepted) ==
    IF ret = HardError THEN "ReadFailure"
    ELSE IF ret = 0 THEN "RemoteClosed"
    ELSE IF ret > 0 /\ ~accepted THEN "CommitRefused"
    ELSE "none"

\* a read path that reports nothing when the peer closes
RecvErrorSilentClose(ret) ==
    IF ret = HardError THEN <<"ReadFailure">> ELSE <<>>

\* lines 230-235, 241-245: the error reported for a receive result
RecvError(ret) ==
    IF ret = HardError THEN <<"ReadFailure">>
    ELSE IF ret = 0 THEN <<"RemoteClosed">>
    ELSE <<>>

\* line 220: the reserved region of len bytes after recv returned ret: the
\* bytes received, then whatever the region held (0)
RecvRegion(len, ret) ==
    [i \in 1..len |-> IF i <= ret THEN rx_count + i ELSE 0]

\* a read path whose hard-error branch forgets the commit
ReadHandlesLeakOnError(len, ret) ==
    IF len > 0 /\ ret = HardError THEN <<"reserve">> ELSE <<"reserve", "commit">>

\* the zero-copy calls of one loop iteration that reserved len bytes and, for
\* len > 0, received ret: reserve (line 210), then the commit of the branch
\* taken (lines 216, 225, 234, 244, 251)
ReadHandles(len, ret) ==
    IF len <= 0 THEN <<"reserve", "commit">>
    ELSE IF ret = Retryable THEN <<"reserve", "commit">>
    ELSE IF ret = HardError THEN <<"reserve", "commit">>
    ELSE IF ret = 0 THEN <<"reserve", "commit">>
    ELSE <<"reserve", "commit">>

\* the call record after a reservation of len bytes and recv returning ret
Received(len, ret, accepted) ==
    [call EXCEPT !.avail = get_read_buffer_available, !.reserved = len,
                 !.commit = CommitLen(len, ret), !.recvs = Append(@, ret),
                 !.errs = @ \o RecvError(ret),
                 !.failure = RecvFailure(ret, accepted),
                 !.handles = ReadHandles(len, ret)]

\* lines 210-218: the reservation is empty: commit nothing, leave the loop
PollReserveEmpty ==
    /\ pc = "read"
    /\ UNCHANGED tcp_mutex
    /\ ReadLoopRuns
    /\ 0 \in ReserveOutcomes(get_read_buffer_available)
    /\ call' = [call EXCEPT !.avail = get_read_buffer_available,
                            !.reserved = 0, !.commit = 0,
                            !.handles = ReadHandles(0, 0)]
    /\ pc' = "write"
    /\ UNCHANGED <<client, open_fds, rings, traffic, in_rset, in_wset, pre>>

\* lines 251-259: the bytes the ring takes from the region: the first
\* CommitLen of it, when the iteration gets as far as a commit of bytes that
\* the ring accepts
RingTakes(len, ret, accepted) ==
    IF ret # Retryable /\ ~RecvDisconnects(ret) /\ accepted
    THEN SubSeq(RecvRegion(len, ret), 1, CommitLen(len, ret))
    ELSE <<>>

\* lines 210-259: one iteration that reserves len bytes and receives ret;
\* accepted is the ring's answer to the commit, k what the consumer drains
\* when notified of it, rec the call record after the iteration
ReadIteration(len, ret, accepted, k, rec) ==
    /\ ReadLoopRuns
    /\ UNCHANGED tcp_mutex
    /\ len \in ReserveOutcomes(get_read_buffer_available)
    /\ len > 0
    /\ (ret <= 0 => accepted)               \* a commit of nothing is not refused
    /\ (ret <= 0 \/ ~accepted => k = 0)     \* and nobody is notified of it
    /\ UNCHANGED <<wbuf, enq_count, sent, rx_base, pre>>
    /\ IF ret = Retryable
       THEN \* lines 223-227: leave the loop
            /\ call' = rec
            /\ pc' = "write"
            /\ UNCHANGED <<client, open_fds, rbuf, in_rset, in_wset>>
       ELSE IF RecvDisconnects(ret) \/ ~accepted
       THEN \* lines 229-248, 253-258: disconnect(), return 0
            /\ DoDisconnect
            /\ call' = AfterDisconnect(rec)
            /\ pc' = "idle"
            /\ in_rset' = FALSE
            /\ in_wset' = FALSE
            /\ UNCHANGED rbuf
       ELSE \* lines 251-259: the ring takes the first bytes of the region;
            \* loop again
            /\ k \in 0..(Len(rbuf) + ret)
            /\ rbuf' = Drained(rbuf \o RingTakes(len, ret, accepted), k)
            /\ call' = rec
            /\ UNCHANGED <<client, open_fds, polling>>

\* an iteration against peers that deliver MaxRx bytes in all
PollRecv(len, ret, accepted, k) ==
    /\ pc = "read"
    /\ ret \in RecvOutcomes(len)
    /\ ReadIteration(len, ret, accepted, k, Received(len, ret, accepted))
    /\ rx_count' = IF ret > 0 THEN rx_count + ret ELSE rx_count
    /\ tot_commit' = tot_commit + CommitLen(len, ret)
    /\ rx_log' = rx_log \o RingTakes(len, ret, accepted)

\* line 220: recv() on a socket whose peer always has more data to deliver
FloodOutcomes(len) == (1..len) \cup {0, Retryable, HardError}

\* an iteration against such a peer: the bytes are not numbered or counted,
\* and the call record keeps the last receive only
PollRecvFlood(len, ret, accepted, k) ==
    /\ pc = "read"
    /\ ret \in FloodOutcomes(len)
    /\ ReadIteration(len, ret, accepted, k,
                     [Received(len, ret, accepted) EXCEPT !.recvs = <<ret>>])
    /\ UNCHANGED <<rx_count, tot_commit, rx_log>>

\* line 263: the condition of the write phase
WriteRuns == connected /\ in_wset /\ get_write_buffer_used > 0

\* zero_copy_peek_write_buffer_data(buf, sz): the whole pending region
PeekLen(sz) == sz

\* line 268: send(cli_fd, buf, len)
SendOutcomes(len) == (1..len) \cup {0, Retryable, HardError}

\* a write path that never consumes what send() took
ConsumeNothing(len, ret) == 0

\* a consume of everything peeked instead of what send() took
ConsumeAllPeeked(len, ret) == len

\* line 294: the length passed to consume_write_buffer_data after send
\* returned ret > 0 of the len bytes peeked
ConsumeLen(len, ret) == ret

\* a write path that reports a zero-byte send and stays connected
SendDisconnectsOnErrorOnly(ret) == ret = HardError

\* lines 270-290: does this send result end in disconnect()
SendDisconnects(ret) == ret = HardError \/ ret = 0

\* lines 270, 274, 283: the failure a send result amounts to
SendFailure(ret) ==
    IF ret = HardError THEN "WriteFailure"
    ELSE IF ret = 0 THEN "RemoteClosed"
    ELSE "none"

\* lines 275-288: the error reported for a send result
SendError(ret) ==
    IF ret = HardError THEN <<"WriteFailure">>
    ELSE IF ret = 0 THEN <<"RemoteClosed">>
    ELSE <<>>

\* a write phase that goes back to the read loop when cli_fd was read-ready
AfterWriteReadsAgain == IF connected /\ in_rset THEN "read" ELSE "idle"

\* line 298: the write phase is the last thing a call does
AfterWrite == "idle"

\* the zero-copy calls of the write block after send returned ret: peek
\* (line 265), then the release of the branch taken (lines 272, 277, 286,
\* 293) and, after a send that took bytes, the consume (line 294)
SendHandles(ret) ==
    IF ret = Retryable THEN <<"peek", "free">>
    ELSE IF ret = HardError THEN <<"peek", "free">>
    ELSE IF ret = 0 THEN <<"peek", "free">>
    ELSE <<"peek", "free", "consume">>

\* line 263 false, line 298
PollWriteSkip ==
    /\ pc = "write"
    /\ UNCHANGED tcp_mutex
    /\ ~WriteRuns
    /\ pc' = AfterWrite
    /\ in_rset' = FALSE
    /\ in_wset' = FALSE
    /\ call' = Returned(call, 0)
    /\ UNCHANGED <<client, open_fds, rings, traffic, pre>>

\* lines 263-298: peek the pending bytes, send them, send returns ret
PollSend(ret) ==
    /\ pc = "write"
    /\ UNCHANGED tcp_mutex
    /\ WriteRuns
    /\ ret \in SendOutcomes(PeekLen(get_write_buffer_used))
    /\ pc' = AfterWrite
    /\ in_rset' = FALSE
    /\ in_wset' = FALSE
    /\ UNCHANGED <<rbuf, rx_count, enq_count, tot_commit, rx_base, rx_log, pre>>
    /\ LET c == [call EXCEPT !.nsend = @ + 1, !.sendret = ret,
                             !.errs = @ \o SendError(ret),
                             !.failure = SendFailure(ret),
                             !.handles = SendHandles(ret)]
       IN  IF ret = Retryable
           THEN \* lines 271-273
                /\ call' = Returned(c, 0)
                /\ UNCHANGED <<client, open_fds, wbuf, sent>>
           ELSE IF SendDisconnects(ret)
           THEN \* lines 274-290
                /\ DoDisconnect
                /\ call' = AfterDisconnect(c)
                /\ UNCHANGED <<wbuf, sent>>
           ELSE \* lines 291-295
                /\ sent' = sent \o SubSeq(wbuf, 1, ret)
                /\ wbuf' = Drop(wbuf, ConsumeLen(PeekLen(get_write_buffer_used), ret))
                /\ call' = Returned(c, 0)
                /\ UNCHANGED <<client, open_fds>>

\* ------------------------------------------------ the other ring holder
\* the protocol consumer drains k bytes of the ingress ring
ConsumerRead(k) ==
    /\ pc = "idle"
    /\ UNCHANGED tcp_mutex
    /\ k \in 1..Len(rbuf)
    /\ rbuf' = Drained(rbuf, k)
    /\ call' = Returned([NewCall("consumer") EXCEPT !.lock = HandlerMutex], 0)
    /\ pre' = Snapshot
    /\ UNCHANGED <<client, open_fds, wbuf, traffic, polling>>

\* the protocol consumer enqueues n bytes on the egress ring
ProducerWrite(n) ==
    /\ pc = "idle"
    /\ UNCHANGED tcp_mutex
    /\ n \in 1..(WCap - Len(wbuf))
    /\ enq_count + n <= MaxEnq
    /\ wbuf' = wbuf \o Bytes(enq_count, n)
    /\ enq_count' = enq_count + n
    /\ call' = Returned([NewCall("producer") EXCEPT !.lock = HandlerMutex], 0)
    /\ pre' = Snapshot
    /\ UNCHANGED <<client, open_fds, rbuf, rx_count, tot_commit, sent,
                   rx_base, rx_log, polling>>

\* ------------------------------------------------------------ the system
Next ==
    \/ ConnectAlready
    \/ ConnectUnresolved
    \/ \E e \in Endpoints : ConnectNoSocket(e[1], e[2])
    \/ \E e \in Endpoints, s \in Fds, c \in ConnectOutcomes :
          ConnectSocket(e[1], e[2], s, c)
    \/ Disconnect
    \/ \E m \in MaxFdInputs : MergeSet(m)
    \/ \E r \in BOOLEAN : PollConnectWait(r)
    \/ \E r \in BOOLEAN, so \in {"ok", "error", "queryfail"} : PollConnectReady(r, so)
    \/ PollInactive
    \/ \E r \in BOOLEAN, w \in BOOLEAN, k \in 0..RCap : PollConnected(r, w, k)
    \/ PollReadDone
    \/ PollReserveEmpty
    \/ \E len \in 1..RCap, ret \in HardError..RCap, a \in BOOLEAN, k \in 0..RCap :
          PollRecv(len, ret, a, k)
    \/ PollWriteSkip
    \/ \E ret \in HardError..WCap : PollSend(ret)
    \/ \E k \in 1..RCap : ConsumerRead(k)
    \/ \E n \in 1..WCap : ProducerWrite(n)

Spec == Init /\ [][Next]_vars

\* the same system with callers of set_mutex().  set_mutex() changes only
\* tcp_mutex, which no other operation reads except to lock it, so here
\* connect() is given one endpoint and the merge one in_max_fd.
NextMutex ==
    \/ \E m \in MutexArgs : SetMutex(m)
    \/ ConnectAlready
    \/ ConnectUnresolved
    \/ ConnectNoSocket("a", 1)
    \/ \E s \in Fds, c \in ConnectOutcomes : ConnectSocket("a", 1, s, c)
    \/ Disconnect
    \/ MergeSet(OtherFd)
    \/ \E r \in BOOLEAN : PollConnectWait(r)
    \/ \E r \in BOOLEAN, so \in {"ok", "error", "queryfail"} : PollConnectReady(r, so)
    \/ PollInactive
    \/ \E r \in BOOLEAN, w \in BOOLEAN, k \in 0..RCap : PollConnected(r, w, k)
    \/ PollReadDone
    \/ PollReserveEmpty
    \/ \E len \in 1..RCap, ret \in HardError..RCap, a \in BOOLEAN, k \in 0..RCap :
          PollRecv(len, ret, a, k)
    \/ PollWriteSkip
    \/ \E ret \in HardError..WCap : PollSend(ret)
    \/ \E k \in 1..RCap : ConsumerRead(k)
    \/ \E n \in 1..WCap : ProducerWrite(n)

SpecMutex == Init /\ [][NextMutex]_vars

\* the steps of a pollable_poll in progress, against a peer that always has
\* more data
PollStepFlood ==
    \/ PollReadDone
    \/ PollReserveEmpty
    \/ \E len \in 1..RCap, ret \in HardError..RCap, a \in BOOLEAN, k \in 0..RCap :
          PollRecvFlood(len, ret, a, k)
    \/ PollWriteSkip
    \/ \E ret \in HardError..WCap : PollSend(ret)

\* the same system with a peer that always has more data to deliver
NextFlood ==
    \/ ConnectAlready
    \/ ConnectUnresolved
    \/ \E e \in Endpoints : ConnectNoSocket(e[1], e[2])
    \/ \E e \in Endpoints, s \in Fds, c \in ConnectOutcomes :
          ConnectSocket(e[1], e[2], s, c)
    \/ Disconnect
    \/ \E m \in MaxFdInputs : MergeSet(m)
    \/ \E r \in BOOLEAN : PollConnectWait(r)
    \/ \E r \in BOOLEAN, so \in {"ok", "error", "queryfail"} : PollConnectReady(r, so)
    \/ PollInactive
    \/ \E r \in BOOLEAN, w \in BOOLEAN, k \in 0..RCap : PollConnected(r, w, k)
    \/ PollStepFlood
    \/ \E k \in 1..RCap : ConsumerRead(k)
    \/ \E n \in 1..WCap : ProducerWrite(n)

\* the thread inside pollable_poll keeps running: the call makes no blocking
\* system call and holds tcp_mutex already
SpecFlood == Init /\ [][NextFlood]_vars /\ WF_vars(PollStepFlood)

\* ------------------------------------------------------- sanity of the model
TypeOK ==
    /\ pending_connect \in BOOLEAN
    /\ connected \in BOOLEAN
    /\ cli_fd \in {-1} \cup Fds
    /\ open_fds \subseteq Fds
    /\ Len(rbuf) <= RCap
    /\ Len(wbuf) <= WCap
    /\ pc \in {"idle", "read", "write"}
    /\ (pc # "idle" => connected /\ ~call.done)
    /\ (connected => cli_fd \in open_fds)

\* ------------------------------------------------------------ the claims
Active == pending_connect \/ connected

WasActive == pre.pending_connect \/ pre.connected

\* the descriptor is one the process holds open
FdValid == cli_fd >= 0 /\ cli_fd \in open_fds

\* C1: connect() called while the client is Connecting or Connected returns
\* an error and leaves the descriptor, the connection state and the open
\* descriptors as they were, whatever resolution, socket() and ::connect() do.
C1_ConnectWhileActiveRefused ==
    (call.op = "connect" /\ WasActive) =>
        /\ call.ret = -1
        /\ cli_fd = pre.cli_fd
        /\ pending_connect = pre.pending_connect
        /\ connected = pre.connected
        /\ open_fds = pre.open_fds

\* C2: between calls, the descriptor is valid (>= 0 and open) exactly when
\* the state is Connecting or Connected.
C2_FdValidIffActive == pc = "idle" => (FdValid <=> Active)

\* C3: pending_connect and connected are never both true.
C3_NotConnectingAndConnected == ~(pending_connect /\ connected)

\* a Connecting client whose connect completed in a poll call
C3_Witness == call.op = "poll" /\ pre.pending_connect /\ connected

\* the fd sets and return value below are those of the last pollable_merge_set
Merged == call.op = "merge"

\* the larger of two descriptors
Larger(a, b) == CHOOSE m \in {a, b} : m >= a /\ m >= b

\* C4: a merge adds the client's descriptor to the write set exactly when the
\* state is Connecting, or Connected with pending egress bytes.
C4_WriteInterestIff ==
    Merged => (cli_fd \in call.ws_out <=>
                  (pending_connect \/ (connected /\ Len(wbuf) > 0)))

\* C5: a merge adds the client's descriptor to the read set exactly when the
\* state is Connected; a Connecting or inactive client leaves the read set as
\* it came, an inactive client leaves both sets as they came, and
\* disconnect() leaves the client inactive.
C5_ReadInterestIff ==
    /\ Merged =>
          /\ cli_fd \in call.rs_out <=> connected
          /\ ~connected => call.rs_out = {OtherFd}
          /\ ~Active => call.ws_out = {OtherFd}
    /\ call.op = "disconnect" => ~Active

\* a merge on a Connected client that registered the descriptor for reading
C5_Witness == Merged /\ connected /\ cli_fd \in call.rs_out

\* C6: a merge returns the larger of in_max_fd and the descriptor when the
\* client is Connecting or Connected and in_max_fd otherwise, and leaves the
\* state, the descriptor and both rings as they were.
C6_MergeReturnsMaxAndKeepsState ==
    Merged =>
        /\ call.ret = IF Active THEN Larger(call.max_in, cli_fd) ELSE call.max_in
        /\ pending_connect = pre.pending_connect
        /\ connected = pre.connected
        /\ cli_fd = pre.cli_fd
        /\ rbuf = pre.rbuf
        /\ wbuf = pre.wbuf

\* a merge on an active client given an in_max_fd above its descriptor
C6_Witness == Merged /\ Active /\ cli_fd >= 0 /\ call.max_in > cli_fd

\* the last call was a poll that began in state Connecting
PolledConnecting == call.op = "poll" /\ pre.pending_connect

\* C7: a poll of a Connecting client returns without any recv or send; with
\* the descriptor write-ready, a zero socket error makes it Connected and any
\* error or failed query reports ConnectFailure, closes the descriptor and
\* makes it Closed; without write-readiness it stays Connecting.
C7_ConnectCompletion ==
    PolledConnecting =>
        /\ call.done /\ call.ret = 0
        /\ call.recvs = <<>> /\ call.nsend = 0
        /\ IF ~call.w
           THEN /\ pending_connect /\ ~connected
                /\ cli_fd = pre.cli_fd /\ open_fds = pre.open_fds
                /\ call.errs = <<>>
           ELSE IF call.so = "ok"
           THEN /\ connected /\ ~pending_connect
                /\ cli_fd = pre.cli_fd /\ open_fds = pre.open_fds
                /\ call.errs = <<>>
           ELSE /\ ~connected /\ ~pending_connect
                /\ cli_fd = -1
                /\ open_fds = pre.open_fds \ {pre.cli_fd}
                /\ call.errs = <<"ConnectFailure">>

\* a failed completion seen with the descriptor read-ready as well
C7_Witness ==
    /\ PolledConnecting /\ call.w /\ call.r /\ call.so = "error"
    /\ pre.cli_fd \in pre.open_fds /\ cli_fd = -1

\* the sum of the positive entries of a sequence of recv results
RECURSIVE SumPositive(_)
SumPositive(rs) ==
    IF rs = <<>> THEN 0
    ELSE (IF Head(rs) > 0 THEN Head(rs) ELSE 0) + SumPositive(Tail(rs))

\* C8: the lengths the client commits to the ingress ring add up to the
\* positive recv results, over all poll calls and within each one, and every
\* commit is at most the reservation made before it, which is at most the
\* free capacity of the ring at that time.
C8_CommitsMatchReceives ==
    /\ tot_commit = rx_count
    /\ call.op = "poll" =>
          /\ rx_count - pre.rx_count = SumPositive(call.recvs)
          /\ tot_commit - pre.tot_commit = SumPositive(call.recvs)
    /\ call.commit <= call.reserved
    /\ call.reserved <= call.avail
    /\ call.avail <= RCap

\* two receives in one call, a positive one and then one without data
C8_Witness ==
    /\ call.op = "poll" /\ Len(call.recvs) >= 2
    /\ call.recvs[1] > 0 /\ call.recvs[Len(call.recvs)] <= 0
    /\ call.commit = 0 /\ call.reserved > 0 /\ tot_commit > 0

\* the last call was a poll that made a send
PolledSend == call.op = "poll" /\ call.done /\ call.nsend = 1

\* C9: a send that takes N > 0 of the M pending bytes leaves the last M - N
\* of them pending; the bytes sent so far followed by the bytes pending are
\* the bytes enqueued, in order; a retryable send failure leaves all M bytes
\* pending, reports no error and keeps the connection.
C9_ShortSendKeepsRemainder ==
    /\ sent \o wbuf = Bytes(0, enq_count)
    /\ PolledSend /\ call.sendret > 0 =>
          /\ call.sendret <= Len(pre.wbuf)
          /\ Len(wbuf) = Len(pre.wbuf) - call.sendret
          /\ wbuf = SubSeq(pre.wbuf, call.sendret + 1, Len(pre.wbuf))
    /\ PolledSend /\ call.sendret = Retryable =>
          /\ wbuf = pre.wbuf
          /\ call.errs = <<>>
          /\ connected

\* a send that took some of the pending bytes and left others
C9_Witness == PolledSend /\ call.sendret > 0 /\ Len(wbuf) > 0

\* a poll whose last recv returned 0 while egress bytes were pending
RecvSawClose ==
    /\ call.op = "poll"
    /\ call.recvs # <<>>
    /\ call.recvs[Len(call.recvs)] = 0
    /\ Len(pre.wbuf) > 0

\* C10, as claimed: after a zero-byte receive with unsent egress bytes the
\* client has reported RemoteClosed and disconnected, and the egress ring is
\* empty.
C10_CloseDiscardsEgress ==
    RecvSawClose =>
        /\ call.errs = <<"RemoteClosed">>
        /\ ~Active
        /\ Len(wbuf) = 0

\* C10, amended: after a zero-byte receive with unsent egress bytes the
\* client has reported RemoteClosed, closed the descriptor and become Closed
\* without sending; the unsent bytes are still pending in the egress ring.
C10_CloseKeepsEgress ==
    RecvSawClose =>
        /\ call.done
        /\ call.errs = <<"RemoteClosed">>
        /\ ~Active
        /\ cli_fd = -1
        /\ pre.cli_fd \notin open_fds
        /\ call.nsend = 0
        /\ wbuf = pre.wbuf

\* the peer closed while the descriptor was write-ready too
C10_Witness == RecvSawClose /\ call.done /\ call.w /\ Len(wbuf) > 0

\* C11: disconnect() leaves the client Closed with an invalid descriptor and
\* the rings untouched.  It calls close() once, on the descriptor it holds
\* and that was open, when it starts from Connecting or Connected holding
\* one, and never otherwise.  Started from a Closed or Idle client (as a
\* second disconnect() is) it makes no close and leaves every field and
\* every open descriptor as it was.
C11_DisconnectIdempotent ==
    call.op = "disconnect" =>
        /\ call.done
        /\ ~Active
        /\ cli_fd = -1
        /\ call.closes = IF WasActive /\ pre.cli_fd >= 0 THEN 1 ELSE 0
        /\ call.closes = 1 =>
              /\ pre.cli_fd \in pre.open_fds
              /\ open_fds = pre.open_fds \ {pre.cli_fd}
        /\ call.closes = 0 => open_fds = pre.open_fds
        /\ ~WasActive =>
              /\ cli_fd = pre.cli_fd
              /\ pending_connect = pre.pending_connect
              /\ connected = pre.connected
        /\ host = pre.host
        /\ port = pre.port
        /\ rbuf = pre.rbuf
        /\ wbuf = pre.wbuf
        /\ call.errs = <<>>

\* a disconnect() of a Connected client that closed its descriptor
C11_Witness ==
    call.op = "disconnect" /\ pre.connected /\ call.closes = 1 /\ cli_fd = -1

\* the failures the error taxonomy names
TransportFailures ==
    {"ResolutionFailure", "SocketCreateFailure", "ConnectFailure",
     "ReadFailure", "WriteFailure", "RemoteClosed"}

PollReported == call.op = "poll" /\ call.errs # <<>>

\* C13: a poll that reported an error has returned with the client Closed,
\* the descriptor invalid and closed, and made no recv or send after the one
\* that failed.  A Closed client stays Closed under every call but connect():
\* polls of it make no recv and no send, merges register nothing.
C13_NoRetryAfterError ==
    /\ PollReported =>
          /\ call.done
          /\ pc = "idle"
          /\ ~Active
          /\ cli_fd = -1
          /\ pre.cli_fd \notin open_fds
          /\ Len(call.errs) = 1
          /\ \A i \in 1..(Len(call.recvs) - 1) : call.recvs[i] > 0
          /\ call.nsend = 0 =>
                \/ call.failure = "ConnectFailure" /\ call.recvs = <<>>
                \/ /\ call.recvs # <<>>
                   /\ call.recvs[Len(call.recvs)] \in {0, HardError}
          /\ call.nsend = 1 =>
                /\ call.sendret \in {0, HardError}
                /\ \A i \in 1..Len(call.recvs) : call.recvs[i] \notin {0, HardError}
          /\ call.nsend <= 1
    /\ (~WasActive /\ call.op # "connect") =>
          /\ ~Active
          /\ cli_fd = -1
          /\ open_fds = pre.open_fds
          /\ call.recvs = <<>>
          /\ call.nsend = 0
          /\ Merged => call.rs_out = {OtherFd} /\ call.ws_out = {OtherFd}

\* a poll that received bytes and then met a failing send
C13_Witness ==
    /\ PollReported
    /\ call.failure = "WriteFailure"
    /\ call.recvs # <<>>
    /\ call.recvs[1] > 0

\* the read loop of the call ended in disconnect()
ReadPhaseDisconnected ==
    \/ call.failure = "CommitRefused"
    \/ /\ call.recvs # <<>>
       /\ call.recvs[Len(call.recvs)] \in {0, HardError}

\* C14: within one poll, no send is made while the read loop is still to run
\* or running, and the send is the last thing the call does; a call that
\* made a send began Connected with cli_fd write-ready, and every receive
\* before the send returned bytes, except that the last may have been
\* retryable; a call whose read loop disconnected made no send.
C14_ReadBeforeWrite ==
    call.op = "poll" =>
        /\ pc = "read" => call.nsend = 0
        /\ call.nsend <= 1
        /\ call.nsend = 1 =>
              /\ pc = "idle"
              /\ call.done
              /\ pre.connected
              /\ call.w
              /\ call.recvs # <<>> => call.r
              /\ \A i \in 1..(Len(call.recvs) - 1) : call.recvs[i] > 0
              /\ \A i \in 1..Len(call.recvs) :
                    call.recvs[i] > 0 \/ call.recvs[i] = Retryable
        /\ ReadPhaseDisconnected =>
              /\ call.nsend = 0
              /\ call.done
              /\ ~Active

\* a poll, read- and write-ready, that received bytes and then sent
C14_Witness ==
    /\ call.op = "poll"
    /\ call.r
    /\ call.w
    /\ call.recvs # <<>>
    /\ call.recvs[1] > 0
    /\ call.nsend = 1
    /\ call.sendret > 0

\* the bytes of the ingress ring that came from the current socket
FromCurrentSocket(buf) == SelectSeq(buf, LAMBDA b : b > rx_base)

\* C15: the bytes the ingress ring accepted from the current socket are, in
\* order, the first bytes its receives delivered; the ingress ring holds
\* bytes in the order they were received, those of the current socket being
\* the last ones accepted; the bytes send() took are, in order, the first
\* bytes enqueued on the egress ring, and the egress ring holds the rest.
C15_OrderPreserved ==
    /\ rx_log = Bytes(rx_base, Len(rx_log))
    /\ rx_base + Len(rx_log) <= rx_count
    /\ \A i \in 1..(Len(rbuf) - 1) : rbuf[i] < rbuf[i + 1]
    /\ LET mine == FromCurrentSocket(rbuf)
       IN  /\ Len(mine) <= Len(rx_log)
           /\ mine = SubSeq(rx_log, Len(rx_log) - Len(mine) + 1, Len(rx_log))
    /\ sent = Bytes(0, Len(sent))
    /\ sent \o wbuf = Bytes(0, enq_count)

\* two polls each committed bytes of one socket and the consumer drained
\* some, while a short send left bytes pending
C15_Witness ==
    /\ Len(rx_log) >= 2
    /\ call.op = "poll"
    /\ pre.rx_count > rx_base
    /\ rx_count > pre.rx_count
    /\ Len(rbuf) < Len(rx_log)
    /\ sent # <<>>
    /\ wbuf # <<>>

\* the connect() just made failed before it had a socket
ConnectFailedEarly ==
    /\ call.op = "connect"
    /\ call.failure \in {"ResolutionFailure", "SocketCreateFailure"}

\* C16: a connect() that fails to resolve the name or to create the socket
\* returns an error and leaves the flags, the descriptor, host and port as
\* they were, and opens and closes no socket.
C16_FailedConnectKeepsState ==
    ConnectFailedEarly =>
        /\ call.ret = -1
        /\ pending_connect = pre.pending_connect
        /\ connected = pre.connected
        /\ cli_fd = pre.cli_fd
        /\ host = pre.host
        /\ port = pre.port
        /\ open_fds = pre.open_fds
        /\ call.closes = 0

\* C16, amended: both failures return an error, leave the flags as they were
\* and open and close no socket.  A failure to resolve the name leaves the
\* descriptor, host and port as they were too; a failure to create the
\* socket comes after host and port were stored and leaves -1, the value
\* socket() returned, in the descriptor.
C16_FailedConnectEffect ==
    ConnectFailedEarly =>
        /\ call.ret = -1
        /\ pending_connect = pre.pending_connect
        /\ connected = pre.connected
        /\ open_fds = pre.open_fds
        /\ call.closes = 0
        /\ rbuf = pre.rbuf
        /\ wbuf = pre.wbuf
        /\ call.failure = "ResolutionFailure" =>
              /\ cli_fd = pre.cli_fd
              /\ host = pre.host
              /\ port = pre.port
        /\ call.failure = "SocketCreateFailure" =>
              /\ cli_fd = -1
              /\ <<host, port>> \in Endpoints

\* a connect() to another endpoint that could not create its socket
C16_Witness ==
    /\ ConnectFailedEarly
    /\ call.failure = "SocketCreateFailure"
    /\ pre.host # ""
    /\ host # pre.host

\* the operations of the client that touch its state or the rings
ClientOps == {"connect", "disconnect", "merge", "poll"}

LastRecv == call.recvs[Len(call.recvs)]

\* C18: every pollable_poll that has begun returns, also against a peer that
\* always has more data to deliver.
C18_PollTerminates == (pc # "idle") ~> (pc = "idle")

\* C18, amended: a pollable_poll in progress can always take its next step.
\* The read loop is still running only while the client is Connected, nothing
\* failed, and every iteration so far reserved a region, received at least
\* one byte into it and committed exactly those bytes; it runs an iteration
\* only with free space in the ring, and with none it goes on to the write
\* phase without a receive.  Every step of the write phase ends the call.
C18_LoopProgress ==
    /\ [](pc # "idle" => ENABLED PollStepFlood)
    /\ [](pc = "read" =>
            /\ connected
            /\ call.failure = "none"
            /\ call.errs = <<>>
            /\ call.recvs # <<>> =>
                  /\ LastRecv >= 1
                  /\ call.commit = LastRecv
                  /\ call.reserved >= call.commit
                  /\ call.avail >= call.reserved)
    /\ [][pc = "read" /\ pc' = "read" =>
            /\ ReadLoopRuns
            /\ call'.recvs # <<>>
            /\ call'.commit >= 1]_vars
    /\ [][pc = "read" /\ ~ReadLoopRuns => pc' = "write" /\ call' = call]_vars
    /\ [][pc = "write" => pc' = "idle" /\ call'.done]_vars

\* the read loop still running after it committed a ring's worth of bytes,
\* the consumer having drained them when notified
C18_Witness ==
    /\ pc = "read"
    /\ call.recvs # <<>>
    /\ call.commit = RCap
    /\ rbuf = <<>>

\* C19: the descriptors opened by socket() and not yet closed are exactly
\* the client's descriptor while it is Connecting or Connected, and none
\* while it is Idle or Closed.
C19_NoDescriptorLeak ==
    open_fds = IF Active THEN {cli_fd} ELSE {}

\* C20: every loop iteration of a poll made one reservation and then one
\* commit, and every send was preceded by one peek and followed by one
\* release, whatever recv and send returned, so no reservation or peek is
\* outstanding between iterations or when the call returns; a poll in which
\* the ring refused a commit of received bytes has disconnected and
\* returned without another receive or a send.
C20_HandlesBalanced ==
    call.op = "poll" =>
        /\ call.handles \in {<<>>, <<"reserve", "commit">>,
                             <<"peek", "free">>, <<"peek", "free", "consume">>}
        /\ (call.recvs # <<>> /\ call.nsend = 0) =>
              call.handles = <<"reserve", "commit">>
        /\ call.nsend = 1 =>
              call.handles = IF call.sendret > 0
                             THEN <<"peek", "free", "consume">>
                             ELSE <<"peek", "free">>
        /\ call.failure = "CommitRefused" =>
              /\ call.done
              /\ pc = "idle"
              /\ ~Active
              /\ cli_fd = -1
              /\ pre.cli_fd \notin open_fds
              /\ call.recvs[Len(call.recvs)] > 0
              /\ call.nsend = 0
              /\ call.errs = <<>>

\* a poll that received bytes twice and had the second commit refused
C20_Witness ==
    /\ call.op = "poll"
    /\ call.failure = "CommitRefused"
    /\ Len(call.recvs) = 2
    /\ call.w
    /\ Len(wbuf) > 0

====
